---- MODULE Spec2Model ----
(***************************************************************************)
(* A model of ytree's indexing and I/O-scheduling engine:                  *)
(*   - the I/O loop scheduler's preparation step                           *)
(*       (YTreeArbor._node_io_loop_prepare,                                *)
(*        ConsistentTreesGroupArbor._node_io_loop_prepare),                *)
(*   - the exporter (save_data_files, save_data_file, save_header_file)    *)
(*       and the reload of its output (YTreeArbor._plant_trees),           *)
(*   - the three tree planters (flat catalog, manifest, structured).       *)
(*                                                                         *)
(* Conventions.  Python arrays are modelled as TLA+ sequences, so a Python *)
(* array position p is the sequence position p+1.  Tree indices (_ai),     *)
(* file ids (_fi, dfi) and byte offsets keep the program's 0-based values. *)
(* Positions inside a request (io_order, return_order, index_list) are     *)
(* kept 1-based: the value k stands for Python position k-1.               *)
(***************************************************************************)
EXTENDS Integers, Sequences, FiniteSets, TLC

\* ------------------------------------------------------------------------
\* Bounds of the model
\* ------------------------------------------------------------------------
MaxTrees == 3
MaxReq == 3
MaxSaved == 3
MaxTreeSize == 2
MaxFileSize == 3
MaxFlatTrees == 2
MaxBodyLines == 2
MaxBlockSize == 26
MaxFid == 2
MaxManifestTrees == 3
MaxHdfFiles == 2
MaxHdfTrees == 2

VARIABLES
    \* --- scheduler --------------------------------------------------------
    arbor,          \* which Arbor class is loaded
    ei,             \* YTreeArbor: self._node_io._ei (cumulative tree ends)
    node_info_ai,   \* YTreeArbor: self._node_info['_ai']
    tree_fi,        \* ConsistentTreesGroupArbor: _fi of each planted tree
    data_files,     \* self._node_io.data_files / self.data_files
    request,        \* the nodes argument of _node_io_loop_prepare
    prep,           \* what _node_io_loop_prepare returned
    schedPc         \* "ready" before the call, "prepared" after it

schedVars == <<arbor, ei, node_info_ai, tree_fi, data_files, request, prep, schedPc>>

VARIABLES
    \* --- exporter and reload ----------------------------------------------
    trees,            \* the trees to save, each with its in-memory field arrays
    max_file_size,    \* the group threshold
    expPc,            \* where save_arbor / the reload stands
    isaved,           \* number of trees the loop of save_data_files has taken
    cg,               \* i, current_group, cg_nnodes, cg_ntrees
    group_nnodes,     \* nodes written to each data file
    group_ntrees,     \* trees written to each data file
    root_field_data,  \* per field, one array of root values per group
    written,          \* the data files on disk, in the order written
    header,           \* the header file on disk
    loaded            \* the YTreeArbor that loads the header

exportVars == <<trees, max_file_size, expPc, isaved, cg, group_nnodes,
                group_ntrees, root_field_data, written, header, loaded>>

VARIABLES
    \* --- flat single-file planter (ConsistentTreesArbor) -------------------
    catalog,        \* the catalog file: text, _hoffset, _ntrees
    block_size,     \* the block size of the scan
    flatPc,         \* where _plant_trees stands
    fh,             \* data_file.fh: open or not, and its position
    file_size,      \* file_size
    nblocks,        \* nblocks
    ib,             \* blocks taken by the for loop
    offset,         \* offset
    itree,          \* itree
    flat_trees      \* self._trees

flatVars == <<catalog, block_size, flatPc, fh, file_size, nblocks, ib, offset,
              itree, flat_trees>>

VARIABLES
    \* --- manifest-driven planter (ConsistentTreesGroupArbor) ---------------
    manifest,       \* locations.dat and the data files it names
    manPc,          \* where _parse_parameter_file / _plant_trees stands
    ldata,          \* ldata
    fids,           \* fids
    same_file,      \* same_file
    man_data_files, \* self.data_files (file names, None for unlisted ids)
    man_trees,      \* self._trees
    iplant,         \* trees taken by the planting loop
    probes          \* np.where(~same_file)[0] still to be probed

manVars == <<manifest, manPc, ldata, fids, same_file, man_data_files, man_trees,
             iplant, probes>>

VARIABLES
    \* --- structured planter (ConsistentTreesHDF5Arbor) ---------------------
    container,      \* the hdf5 file: TotNtrees and, per group File<i>, the
                    \* attribute Ntrees and the arrays of TreeInfo
    hdfPc,          \* where the load / _plant_trees stands
    hdf_ntrees,     \* self._ntrees
    file_count,     \* self._file_count
    hdf_data_files, \* self.data_files
    file_offsets,   \* file_offsets
    hdf_trees,      \* self._trees
    idf,            \* files taken by the loop over data_files
    ih,             \* trees of the current file taken by the inner loop
    uids,           \* uids of the current file
    offsets,        \* offsets of the current file
    tree_sizes,     \* tree_sizes of the current file
    stores          \* the stores into self._trees so far, in order

hdfVars == <<container, hdfPc, hdf_ntrees, file_count, hdf_data_files,
             file_offsets, hdf_trees, idf, ih, uids, offsets, tree_sizes, stores>>

\* what each part of the program leaves alone
notSched == <<exportVars, flatVars, manVars, hdfVars>>
notExport == <<schedVars, flatVars, manVars, hdfVars>>
notFlat == <<schedVars, exportVars, manVars, hdfVars>>
notMan == <<schedVars, exportVars, flatVars, hdfVars>>
notHdf == <<schedVars, exportVars, flatVars, manVars>>

vars == <<schedVars, exportVars, flatVars, manVars, hdfVars>>

\* ------------------------------------------------------------------------
\* Generic helpers
\* ------------------------------------------------------------------------
Range(s) == {s[i] : i \in DOMAIN s}

RECURSIVE SumSeq(_)
SumSeq(s) == IF s = << >> THEN 0 ELSE Head(s) + SumSeq(Tail(s))

\* numpy cumsum
Cumsum(s) == [i \in 1..Len(s) |-> SumSeq(SubSeq(s, 1, i))]

SeqsUpTo(S, n) == UNION {[1..k -> S] : k \in 0..n}

\* All sequences of positive integers that sum to n (file layouts of n trees)
RECURSIVE Compositions(_)
Compositions(n) ==
    IF n = 0 THEN {<< >>}
    ELSE UNION {{<<k>> \o c : c \in Compositions(n - k)} : k \in 1..n}

\* ------------------------------------------------------------------------
\* numpy primitives used by the scheduler
\* ------------------------------------------------------------------------

\* np.digitize(x, bins) for monotonically increasing bins, right=False:
\* np.searchsorted(bins, x, side='right'), a binary search for the number of
\* bins that are <= x.  lo, hi are 0-based array positions.
RECURSIVE SearchSortedRight(_, _, _, _)
SearchSortedRight(bins, x, lo, hi) ==
    IF lo >= hi THEN lo
    ELSE LET mid == (lo + hi) \div 2
         IN  IF bins[mid + 1] <= x
             THEN SearchSortedRight(bins, x, mid + 1, hi)
             ELSE SearchSortedRight(bins, x, lo, mid)

SearchSortedLeft(bins, x) == Cardinality({i \in DOMAIN bins : bins[i] < x})

DigitizeLeft(x, bins) == SearchSortedLeft(bins, x)

Digitize(x, bins) == SearchSortedRight(bins, x, 0, Len(bins))

\* np.unique: the sorted distinct values
RECURSIVE SortedSeqOfSet(_)
SortedSeqOfSet(S) ==
    IF S = {} THEN << >>
    ELSE LET m == CHOOSE x \in S : \A y \in S : x <= y
         IN  <<m>> \o SortedSeqOfSet(S \ {m})

UniqueKeepDuplicates(s) == s

Unique(s) == SortedSeqOfSet(Range(s))

\* np.argsort with the default kind (quicksort): some permutation that sorts
\* the keys; the order among equal keys is not specified.
Permutations1(n) == {p \in [1..n -> 1..n] : \A i, j \in 1..n : i # j => p[i] # p[j]}

Argsorts(keys) ==
    {p \in Permutations1(Len(keys)) :
        \A i \in 1..(Len(keys) - 1) : keys[p[i]] <= keys[p[i + 1]]}

\* a[order]: fancy indexing by a sequence of positions
Take(a, order) == [i \in 1..Len(order) |-> a[order[i]]]

\* return_order = np.empty_like(io_order); return_order[io_order] = arange
ScatterIdentity(io_order) == io_order

ScatterArange(io_order) ==
    [j \in 1..Len(io_order) |-> CHOOSE k \in 1..Len(io_order) : io_order[k] = j]

\* a[mask == v]: the entries of a at the positions where mask equals v
RECURSIVE MaskSelect(_, _, _)
MaskSelect(a, mask, v) ==
    IF a = << >> THEN << >>
    ELSE (IF Head(mask) = v THEN <<Head(a)>> ELSE << >>)
         \o MaskSelect(Tail(a), Tail(mask), v)

\* ------------------------------------------------------------------------
\* Scheduler: nodes, requests
\* ------------------------------------------------------------------------

\* A TreeNode as far as the scheduler reads it: the root of tree t, and a
\* non-root node of tree t (node.root is that root).
RootNode(t) == [is_root |-> TRUE, tree |-> t]
NonRootNode(t) == [is_root |-> FALSE, root |-> RootNode(t)]

\* node._ai if node.is_root else node.root._ai
NodeAi(node) ==
    IF node.is_root THEN node_info_ai[node.tree + 1]
    ELSE node_info_ai[node.root.tree + 1]

\* "%s_%04d%s" % (prefix, i, suffix)
DataFileName(i) == <<"arbor", i, ".h5">>

\* YTreeArbor after _plant_trees, for per-file tree counts `counts`
YTreeLoaded(counts) ==
    /\ arbor = "YTreeArbor"
    /\ ei = Cumsum(counts)
    /\ node_info_ai = [t \in 1..SumSeq(counts) |-> t - 1]
    /\ data_files = [i \in 1..Len(counts) |-> DataFileName(i - 1)]
    /\ tree_fi = << >>

\* Python's None in a list of data files
None == << >>

\* ConsistentTreesGroupArbor after _plant_trees: the trees are sorted by
\* file id; file ids may be sparse, unlisted ids hold None.
NonDecreasing(s) == \A i \in 1..(Len(s) - 1) : s[i] <= s[i + 1]

GroupLoaded(fis) ==
    /\ arbor = "ConsistentTreesGroupArbor"
    /\ tree_fi = fis
    /\ data_files = [i \in 1..(fis[Len(fis)] + 1) |->
                       IF (i - 1) \in Range(fis) THEN <<"tree", i - 1, ".dat">>
                       ELSE None]
    /\ ei = << >>
    /\ node_info_ai = << >>

NTrees == IF arbor = "YTreeArbor" THEN Len(node_info_ai) ELSE Len(tree_fi)

InitRequest ==
    \/ request = [kind |-> "none", nodes |-> << >>] /\ arbor = "YTreeArbor"
    \/ \E r \in SeqsUpTo(0..(NTrees - 1), MaxReq) :
          request = [kind |-> "indices", nodes |-> r] /\ arbor = "YTreeArbor"
    \/ \E r \in SeqsUpTo({RootNode(t) : t \in 0..(NTrees - 1)}
                         \cup {NonRootNode(t) : t \in 0..(NTrees - 1)}, MaxReq) :
          request = [kind |-> "objects", nodes |-> r] /\ arbor = "YTreeArbor"
    \/ \E r \in SeqsUpTo({RootNode(t) : t \in 0..(NTrees - 1)}, MaxReq) :
          request = [kind |-> "objects", nodes |-> r]
          /\ arbor = "ConsistentTreesGroupArbor"

InitSched ==
    /\ \/ /\ \/ \E n \in 1..MaxTrees : \E counts \in Compositions(n) :
                   YTreeLoaded(counts)
             \/ \E n \in 1..MaxTrees : \E fis \in [1..n -> 0..MaxTrees] :
                   NonDecreasing(fis) /\ GroupLoaded(fis)
          /\ InitRequest
       \* the documented lookup example: per-file tree counts [3, 5, 2]
       \/ /\ YTreeLoaded(<<3, 5, 2>>)
          /\ request = [kind |-> "indices", nodes |-> <<0, 2, 3, 7, 9>>]
    /\ prep = << >>
    /\ schedPc = "ready"

\* Lines 55-67 of YTreeArbor._node_io_loop_prepare, for the ai array of the
\* request and one outcome io_order of np.argsort(ai).
YTreePrepared(ai0, io_order) ==
    LET ai == Take(ai0, io_order)
        return_order == ScatterArange(io_order)
        dfi == [k \in 1..Len(ai) |-> Digitize(ai[k], ei)]
        udfi == Unique(dfi)
    IN  [io_order |-> io_order,
         ai |-> ai,
         return_order |-> return_order,
         dfi |-> dfi,
         udfi |-> udfi,
         data_files |-> [k \in 1..Len(udfi) |-> data_files[udfi[k] + 1]],
         index_list |-> [k \in 1..Len(udfi) |-> MaskSelect(io_order, dfi, udfi[k])]]

\* YTreeArbor._node_io_loop_prepare(nodes), one disjunct per branch of the
\* if on the type of nodes.
YTree_node_io_loop_prepare ==
    /\ arbor = "YTreeArbor"
    /\ schedPc = "ready"
    /\ schedPc' = "prepared"
    /\ \/ /\ request.kind = "none"
          /\ \E io_order \in Argsorts(node_info_ai) :
                prep' = YTreePrepared(node_info_ai, io_order)
       \/ /\ request.kind = "objects"
          /\ LET ai == [k \in 1..Len(request.nodes) |-> NodeAi(request.nodes[k])]
             IN  \E io_order \in Argsorts(ai) : prep' = YTreePrepared(ai, io_order)
       \/ /\ request.kind = "indices"
          /\ LET ai == [k \in 1..Len(request.nodes) |->
                          node_info_ai[request.nodes[k] + 1]]
             IN  \E io_order \in Argsorts(ai) : prep' = YTreePrepared(ai, io_order)
    /\ UNCHANGED <<arbor, ei, node_info_ai, tree_fi, data_files, request>>
    /\ UNCHANGED notSched

\* ConsistentTreesGroupArbor._node_io_loop_prepare(root_nodes)
CTGPrepared(root_nodes) ==
    LET fi == [k \in 1..Len(root_nodes) |-> tree_fi[root_nodes[k].tree + 1]]
        ufi == Unique(fi)
        positions == [k \in 1..Len(root_nodes) |-> k]
    IN  [fi |-> fi,
         udfi |-> ufi,
         data_files |-> [k \in 1..Len(ufi) |-> data_files[ufi[k] + 1]],
         \* root_nodes[fi == i], kept as positions in root_nodes
         index_list |-> [k \in 1..Len(ufi) |-> MaskSelect(positions, fi, ufi[k])],
         node_list |-> [k \in 1..Len(ufi) |-> MaskSelect(root_nodes, fi, ufi[k])]]

CTG_node_io_loop_prepare ==
    /\ arbor = "ConsistentTreesGroupArbor"
    /\ schedPc = "ready"
    /\ schedPc' = "prepared"
    /\ prep' = CTGPrepared(request.nodes)
    /\ UNCHANGED <<arbor, ei, node_info_ai, tree_fi, data_files, request>>
    /\ UNCHANGED notSched

NextSched ==
    \/ YTree_node_io_loop_prepare
    \/ CTG_node_io_loop_prepare

\* ------------------------------------------------------------------------
\* Scheduler: claims
\* ------------------------------------------------------------------------
\* uconcatenate of a list of arrays: the arrays one after the other
RECURSIVE FlattenReversed(_)
FlattenReversed(ss) ==
    IF ss = << >> THEN << >> ELSE FlattenReversed(Tail(ss)) \o Head(ss)

RECURSIVE Flatten(_)
Flatten(ss) == IF ss = << >> THEN << >> ELSE Head(ss) \o Flatten(Tail(ss))

NoDuplicates(s) == \A i, j \in DOMAIN s : i # j => s[i] # s[j]

\* The items the caller asked for, in the caller's order (nodes=None asks
\* for every tree in arbor order).
Requested ==
    IF request.kind = "none" THEN [t \in 1..NTrees |-> t - 1] ELSE request.nodes

\* The tree a requested item belongs to.
TreeOf(item) ==
    IF request.kind = "objects"
    THEN (IF item.is_root THEN item.tree ELSE item.root.tree)
    ELSE item

\* The file that owns tree t: for YTreeArbor the file whose range of
\* saved-tree positions [start, end) holds t, for the group arbor the tree's
\* _fi.
OwnerFile(t) ==
    IF arbor = "YTreeArbor"
    THEN CHOOSE f \in 0..(Len(ei) - 1) :
            /\ t < ei[f + 1]
            /\ (f > 0 => ei[f] <= t)
    ELSE tree_fi[t + 1]

PreparedYTree == schedPc = "prepared" /\ arbor = "YTreeArbor"

\* C1: for every request to YTreeArbor._node_io_loop_prepare (nodes or tree
\* indices, any order, duplicates and several nodes of one tree allowed)
\* return_order is the inverse permutation of io_order, the per-file index
\* lists concatenated in file order are io_order, and so the values produced
\* in processing order and re-indexed by return_order line up position by
\* position with the caller's request.
C1_OrderRestored ==
    PreparedYTree =>
        LET n == Len(Requested)
            processed == Take(Requested, Flatten(prep.index_list))
        IN  /\ Len(prep.io_order) = n /\ Len(prep.return_order) = n
            /\ \A k \in 1..n : prep.return_order[prep.io_order[k]] = k
            /\ Flatten(prep.index_list) = prep.io_order
            /\ Take(processed, prep.return_order) = Requested

\* C1 witness: a shuffled request of three nodes, two of them of the same
\* tree and one a non-root node, spread over two files, whose processing
\* order is not its own inverse.
C1_Witness ==
    /\ PreparedYTree
    /\ request.kind = "objects"
    /\ Len(request.nodes) = 3
    /\ \E i, j \in 1..3 : /\ i # j
                          /\ TreeOf(request.nodes[i]) = TreeOf(request.nodes[j])
                          /\ ~request.nodes[i].is_root
    /\ Len(prep.data_files) = 2
    /\ prep.io_order # <<1, 2, 3>>
    /\ prep.return_order # prep.io_order

PreparedAny == schedPc = "prepared"

\* C2: in one scheduler call no data file is opened more than once: the
\* list of data files returned by _node_io_loop_prepare (YTreeArbor and
\* ConsistentTreesGroupArbor) holds each file at most once, holds exactly the
\* files that own a requested node, and the per-file lists partition the
\* request: every requested position is in exactly one list, the list of the
\* file that owns it.
C2_EachFileOnce ==
    PreparedAny =>
        LET n == Len(Requested)
            owner == [p \in 1..n |-> OwnerFile(TreeOf(Requested[p]))]
            nf == Len(prep.data_files)
        IN  /\ NoDuplicates(prep.data_files)
            /\ Len(prep.index_list) = nf
            /\ {prep.data_files[k] : k \in 1..nf}
                 = {data_files[owner[p] + 1] : p \in 1..n}
            /\ \A p \in 1..n :
                  \E k \in 1..nf :
                     /\ prep.data_files[k] = data_files[owner[p] + 1]
                     /\ Cardinality({i \in DOMAIN prep.index_list[k] :
                                        prep.index_list[k][i] = p}) = 1
                     /\ \A k2 \in 1..nf :
                           k2 # k => p \notin Range(prep.index_list[k2])
            /\ \A k \in 1..nf : Range(prep.index_list[k]) \subseteq 1..n
            /\ \A k \in 1..nf : prep.data_files[k] # None

\* C2 witness: a request with two nodes in one file and one in another,
\* not grouped by file in the caller's order.
C2_Witness ==
    /\ PreparedAny
    /\ Len(Requested) = 3
    /\ Len(prep.data_files) = 2
    /\ OwnerFile(TreeOf(Requested[1])) = OwnerFile(TreeOf(Requested[3]))
    /\ OwnerFile(TreeOf(Requested[1])) # OwnerFile(TreeOf(Requested[2]))

\* The first file whose cumulative end offset is strictly greater than a.
FirstFileBeyond(a, ends) ==
    CHOOSE f \in 0..(Len(ends) - 1) :
        /\ ends[f + 1] > a
        /\ \A g \in 0..(f - 1) : ends[g + 1] <= a

\* C3: given the cumulative per-file end offsets, an ancillary index a
\* resolves to the first file whose cumulative end offset is strictly
\* greater than a; for per-file counts [3, 5, 2] the indices 0, 2, 3, 7, 9
\* resolve to files 0, 0, 1, 1, 2; with a single file every valid index
\* resolves to file 0.
C3_OffsetIndexLookup ==
    PreparedYTree =>
        /\ NonDecreasing(ei)
        /\ \A k \in DOMAIN prep.ai :
              /\ prep.dfi[k] = FirstFileBeyond(prep.ai[k], ei)
              /\ (Len(ei) = 1 => prep.dfi[k] = 0)
        /\ (ei = <<3, 8, 10>> /\ prep.ai = <<0, 2, 3, 7, 9>>
               => prep.dfi = <<0, 0, 1, 1, 2>>)

\* C3 witness: the lookup example, counts [3, 5, 2] and indices 0, 2, 3, 7, 9.
C3_Witness ==
    /\ PreparedYTree
    /\ ei = <<3, 8, 10>>
    /\ prep.ai = <<0, 2, 3, 7, 9>>
    /\ prep.dfi = <<0, 0, 1, 1, 2>>

\* ------------------------------------------------------------------------
\* Exporter (save_arbor) and reload (YTreeArbor)
\* ------------------------------------------------------------------------
\* determine_field_list: the saved fields always include uid and desc_uid
Fields == {"uid", "desc_uid", "mass"}

\* The k-th tree handed to the exporter: `size` records in tree order, the
\* first being the saved node.  A saved node that is a root has no
\* descendant (-1); one saved from inside a tree has a valid descendant id.
\* Every later record's descendant is the record before it.
SavedTree(k, size, is_root) ==
    [is_root |-> is_root,
     uid |-> [j \in 1..size |-> 10 * k + j - 1],
     desc_uid |-> [j \in 1..size |->
                     IF j = 1 THEN (IF is_root THEN -1 ELSE 10 * k + 9)
                     ELSE 10 * k + j - 2],
     mass |-> [j \in 1..size |-> 100 + 10 * k + j - 1]]

\* tree.tree_size
TreeSize(tree) == Len(tree.uid)

\* node._field_data[field] if node.is_root else node["tree", field]
TreeField(tree, field) == tree[field]

NoHeader == [written |-> FALSE]
NotLoaded == [planted |-> FALSE]
EmptyRootFieldData == [f \in Fields |-> << >>]
NewGroup(i) == [i |-> i, current_group |-> << >>, cg_nnodes |-> 0, cg_ntrees |-> 0]

InitExportWith(ts, mfs) ==
    /\ trees = ts
    /\ max_file_size = mfs
    /\ expPc = "save_data_files"
    /\ isaved = 0
    /\ cg = NewGroup(1)
    /\ group_nnodes = << >>
    /\ group_ntrees = << >>
    /\ root_field_data = EmptyRootFieldData
    /\ written = << >>
    /\ header = NoHeader
    /\ loaded = NotLoaded

\* The documented example: 10 trees of one node each, threshold 4.
ExampleTrees == [k \in 1..10 |-> SavedTree(k, 1, TRUE)]

InitExport ==
    \/ \E n \in 1..MaxSaved :
          \E shape \in [1..n -> (1..MaxTreeSize) \X BOOLEAN] :
             \E mfs \in 1..MaxFileSize :
                InitExportWith([k \in 1..n |-> SavedTree(k, shape[k][1], shape[k][2])],
                               mfs)
    \/ InitExportWith(ExampleTrees, 4)

\* a[idx] for an array idx of 0-based positions
TakeAt(a, idx) == [k \in 1..Len(idx) |-> a[idx[k] + 1]]

\* a[idx] = v for an array idx of 0-based positions
SetAll(a, idx, v) == [p \in 1..Len(a) |-> v]

SetAt(a, idx, v) == [p \in 1..Len(a) |-> IF (p - 1) \in Range(idx) THEN v ELSE a[p]]

\* a - b, element by element
Minus(a, b) == [k \in 1..Len(a) |-> a[k] - b[k]]

\* "%s_%04d.h5" % (filename, current_iteration-1)
OutputFileNameOneBased(current_iteration) == DataFileName(current_iteration)

OutputFileName(current_iteration) == DataFileName(current_iteration - 1)

\* save_data_file, lines 165-191: the data file written for tree_group
\* (a sequence of trees).
DataFileOf(tree_group, current_iteration) ==
    LET my_tree_size == [k \in 1..Len(tree_group) |-> TreeSize(tree_group[k])]
        my_tree_end == Cumsum(my_tree_size)
        my_tree_start == Minus(my_tree_end, my_tree_size)
        fdata == [f \in Fields |->
                    Flatten([k \in 1..Len(tree_group) |-> TreeField(tree_group[k], f)])]
    IN  [name |-> OutputFileName(current_iteration),
         uid |-> fdata["uid"],
         mass |-> fdata["mass"],
         desc_uid |-> SetAt(fdata["desc_uid"], my_tree_start, -1),
         tree_start_index |-> my_tree_start,
         tree_end_index |-> my_tree_end,
         tree_size |-> my_tree_size]

\* save_data_file, line 173: the root values appended to root_field_data,
\* read from the concatenated arrays before desc_uid is overwritten.
RootValuesOf(tree_group, field) ==
    LET my_tree_size == [k \in 1..Len(tree_group) |-> TreeSize(tree_group[k])]
        my_tree_start == Minus(Cumsum(my_tree_size), my_tree_size)
    IN  TakeAt(Flatten([k \in 1..Len(tree_group) |-> TreeField(tree_group[k], field)]),
               my_tree_start)

\* the flush test of save_data_files, line 135
GroupIsFullAtThreshold(nnodes) == nnodes >= max_file_size

GroupIsFull(nnodes) == nnodes > max_file_size

\* save_data_files, lines 130-140: one pass of the loop over the trees; when
\* the group is full, my_save (lines 118-127) with save_data_file inside.
SaveLoopStep ==
    /\ expPc = "save_data_files"
    /\ isaved < Len(trees)
    /\ LET tree == trees[isaved + 1]
           current_group == Append(cg.current_group, tree)
           cg_nnodes == cg.cg_nnodes + TreeSize(tree)
           cg_ntrees == cg.cg_ntrees + 1
       IN  IF GroupIsFull(cg_nnodes)
           THEN /\ group_nnodes' = Append(group_nnodes, cg_nnodes)
                /\ group_ntrees' = Append(group_ntrees, cg_ntrees)
                /\ written' = Append(written, DataFileOf(current_group, cg.i))
                /\ root_field_data' =
                      [f \in Fields |->
                         Append(root_field_data[f], RootValuesOf(current_group, f))]
                /\ cg' = NewGroup(cg.i + 1)
           ELSE /\ cg' = [cg EXCEPT !.current_group = current_group,
                                    !.cg_nnodes = cg_nnodes,
                                    !.cg_ntrees = cg_ntrees]
                /\ UNCHANGED <<group_nnodes, group_ntrees, written, root_field_data>>
    /\ isaved' = isaved + 1
    /\ UNCHANGED <<trees, max_file_size, expPc, header, loaded>>
    /\ UNCHANGED notExport

\* save_data_files, lines 142-148: the trailing group
SaveTrailingGroup ==
    /\ expPc = "save_data_files"
    /\ isaved = Len(trees)
    /\ IF cg.current_group # << >>
       THEN /\ group_nnodes' = Append(group_nnodes, cg.cg_nnodes)
            /\ group_ntrees' = Append(group_ntrees, cg.cg_ntrees)
            /\ written' = Append(written, DataFileOf(cg.current_group, cg.i))
            /\ root_field_data' =
                  [f \in Fields |->
                     Append(root_field_data[f], RootValuesOf(cg.current_group, f))]
       ELSE UNCHANGED <<group_nnodes, group_ntrees, written, root_field_data>>
    /\ expPc' = "save_header_file"
    /\ UNCHANGED <<trees, max_file_size, isaved, cg, header, loaded>>
    /\ UNCHANGED notExport

\* save_header_file, line 223: rdata["desc_uid"][:] = -1
HeaderDescUidKept(rows) == rows

HeaderDescUid(rows) == [k \in 1..Len(rows) |-> -1]

\* save_header_file, lines 210-243
save_header_file ==
    /\ expPc = "save_header_file"
    /\ LET rdata == [f \in Fields |-> Flatten(root_field_data[f])]
           tree_end_index == Cumsum(group_ntrees)
           tree_start_index == Minus(tree_end_index, group_ntrees)
       IN  header' = [written |-> TRUE,
                      uid |-> rdata["uid"],
                      mass |-> rdata["mass"],
                      desc_uid |-> HeaderDescUid(rdata["desc_uid"]),
                      tree_start_index |-> tree_start_index,
                      tree_end_index |-> tree_end_index,
                      tree_size |-> group_ntrees,
                      total_files |-> Len(group_nnodes),
                      total_trees |-> SumSeq(group_ntrees),
                      total_nodes |-> SumSeq(group_nnodes)]
    /\ expPc' = "load"
    /\ UNCHANGED <<trees, max_file_size, isaved, cg, group_nnodes, group_ntrees,
                   root_field_data, written, loaded>>
    /\ UNCHANGED notExport

\* YTreeArbor._parse_parameter_file (line 94) and _plant_trees (97-110) on
\* the header just written
YTree_plant_trees ==
    /\ expPc = "load"
    /\ loaded' = [planted |-> TRUE,
                  size |-> header.total_trees,
                  uid |-> header.uid,
                  si |-> header.tree_start_index,
                  ei |-> header.tree_end_index,
                  ai |-> [t \in 1..header.total_trees |-> t - 1],
                  data_files |-> [i \in 1..Len(header.tree_start_index) |->
                                    DataFileName(i - 1)]]
    /\ expPc' = "done"
    /\ UNCHANGED <<trees, max_file_size, isaved, cg, group_nnodes, group_ntrees,
                   root_field_data, written, header>>
    /\ UNCHANGED notExport

NextExport ==
    \/ SaveLoopStep
    \/ SaveTrailingGroup
    \/ save_header_file
    \/ YTree_plant_trees

\* ------------------------------------------------------------------------
\* Exporter: claims
\* ------------------------------------------------------------------------
DataFilesWritten == expPc \in {"save_header_file", "load", "done"}

ExampleExport == trees = ExampleTrees /\ max_file_size = 4

\* C4 as stated: exporting 10 trees of one node each with group threshold 4
\* yields exactly 3 groups whose tree counts are [4, 4, 2].
C4_Original ==
    (ExampleExport /\ DataFilesWritten) =>
        /\ group_ntrees = <<4, 4, 2>>
        /\ Len(written) = 3

\* C4 amended: exporting 10 trees of one node each with group threshold 4
\* yields exactly 2 groups whose tree counts are [5, 5]: a group is flushed
\* only once its node count exceeds the threshold.
C4_Amended ==
    (ExampleExport /\ DataFilesWritten) =>
        /\ group_ntrees = <<5, 5>>
        /\ group_nnodes = <<5, 5>>
        /\ Len(written) = 2

\* C4 witness: the example export has run to the end.
C4_Witness ==
    /\ ExampleExport
    /\ expPc = "done"
    /\ Len(written) = 2

\* The in-memory record that carries unique id u, as <<tree, record>>.
InMemoryRecord(u) ==
    CHOOSE kj \in UNION {{<<k, j>> : j \in 1..TreeSize(trees[k])} : k \in 1..Len(trees)} :
        trees[kj[1]].uid[kj[2]] = u

InMemoryDesc(u) == trees[InMemoryRecord(u)[1]].desc_uid[InMemoryRecord(u)[2]]

\* The 1-based positions of the first records of the trees of a data file.
FirstRecords(file) == {file.tree_start_index[k] + 1 : k \in DOMAIN file.tree_start_index}

\* C5 as stated: after export every non-root record of every tree written to
\* a data file (every record other than the first record of its tree) has
\* descendant id -1, even when its in-memory descendant id was valid.
C5_Original ==
    \A g \in DOMAIN written :
        \A p \in DOMAIN written[g].desc_uid :
            p \notin FirstRecords(written[g]) => written[g].desc_uid[p] = -1

\* C5 amended: after export the first record of every tree written to a data
\* file (the saved node itself) has descendant id -1, even when its in-memory
\* descendant id was valid; every other record keeps its in-memory
\* descendant id, which is a valid id.
C5_Amended ==
    \A g \in DOMAIN written :
        \A p \in DOMAIN written[g].desc_uid :
            IF p \in FirstRecords(written[g])
            THEN /\ written[g].desc_uid[p] = -1
                 /\ InMemoryRecord(written[g].uid[p])[2] = 1
            ELSE /\ written[g].desc_uid[p] = InMemoryDesc(written[g].uid[p])
                 /\ written[g].desc_uid[p] # -1
                 /\ InMemoryRecord(written[g].uid[p])[2] > 1

\* C5 witness: a data file holds a two-record tree saved from a non-root
\* node, whose in-memory descendant id was valid.
C5_Witness ==
    /\ DataFilesWritten
    /\ \E g \in DOMAIN written :
          \E p \in FirstRecords(written[g]) :
             /\ InMemoryDesc(written[g].uid[p]) # -1
             /\ p + 1 \in DOMAIN written[g].uid
             /\ p + 1 \notin FirstRecords(written[g])

\* The group (1-based) and the position in it (1-based) of the k-th saved
\* tree (k 1-based), from the per-group tree counts.
GroupOfSaved(k) ==
    CHOOSE g \in DOMAIN group_ntrees :
        /\ SumSeq(SubSeq(group_ntrees, 1, g - 1)) < k
        /\ k <= SumSeq(SubSeq(group_ntrees, 1, g))

LocalOfSaved(k) == k - SumSeq(SubSeq(group_ntrees, 1, GroupOfSaved(k) - 1))

\* C6: the exported header holds exactly one row per saved tree for every
\* field, in saved order (group order, then tree order within the group),
\* each row being the field value at the first record of that tree; the
\* descendant id of every header row is -1 whatever the in-memory descendant
\* id of the saved node was, so a reload sees as many independent roots as
\* trees were saved.
C6_HeaderRows ==
    header.written =>
        /\ header.total_trees = Len(trees)
        /\ \A f \in Fields :
              /\ Len(header[f]) = Len(trees)
              /\ \A k \in 1..Len(trees) :
                    LET file == written[GroupOfSaved(k)]
                        first == file.tree_start_index[LocalOfSaved(k)] + 1
                    IN  /\ header[f][k] = file[f][first]
                        /\ (f # "desc_uid" => header[f][k] = trees[k][f][1])
        /\ \A k \in 1..Len(trees) : header.desc_uid[k] = -1

\* C6 witness: a header written for two groups, one of its trees saved from
\* a non-root node.
C6_Witness ==
    /\ header.written
    /\ Len(group_ntrees) >= 2
    /\ \E k \in 1..Len(trees) : trees[k].desc_uid[1] # -1

\* C7: for an export of G groups with tree counts n_0..n_(G-1) the header's
\* tree_end_index is the cumulative sum of the counts and tree_start_index =
\* tree_end_index - n_g, total_files = G, total_trees = the sum of the counts,
\* and the data files carry the sequence numbers 0..G-1 without gaps; on
\* reload YTreeArbor references exactly those G data files and the k-th saved
\* tree (ancillary index k) resolves to the data file of the group it was
\* written into.
C7_IndexRoundTrip ==
    expPc = "done" =>
        LET G == Len(written)
        IN  /\ Len(group_ntrees) = G
            /\ \A g \in 1..G : group_ntrees[g] = Len(written[g].tree_size)
            /\ Len(header.tree_end_index) = G /\ Len(header.tree_start_index) = G
            /\ \A g \in 1..G :
                  /\ header.tree_end_index[g] =
                        (IF g = 1 THEN 0 ELSE header.tree_end_index[g - 1])
                        + group_ntrees[g]
                  /\ header.tree_start_index[g] =
                        header.tree_end_index[g] - group_ntrees[g]
            /\ header.total_files = G
            /\ header.total_trees = Len(trees)
            /\ \A g \in 1..G : written[g].name = DataFileName(g - 1)
            /\ loaded.data_files = [g \in 1..G |-> written[g].name]
            /\ loaded.size = Len(trees)
            /\ \A k \in 0..(Len(trees) - 1) :
                  LET f == Digitize(loaded.ai[k + 1], loaded.ei)
                      file == CHOOSE w \in Range(written) :
                                 w.name = loaded.data_files[f + 1]
                  IN  /\ loaded.ai[k + 1] = k
                      /\ loaded.uid[k + 1] = trees[k + 1].uid[1]
                      /\ f + 1 = GroupOfSaved(k + 1)
                      /\ trees[k + 1].uid[1] \in
                            {file.uid[p] : p \in FirstRecords(file)}

\* C7 witness: a reload of an export of at least two groups of different
\* tree counts.
C7_Witness ==
    /\ expPc = "done"
    /\ loaded.planted
    /\ Len(written) >= 2
    /\ \E g, h \in DOMAIN group_ntrees : group_ntrees[g] # group_ntrees[h]

\* The trees of group g (1-based), as positions of the input sequence: the
\* run that follows the trees of the groups before it.
TreesOfGroup(g) ==
    LET before == SumSeq(SubSeq(group_ntrees, 1, g - 1))
    IN  [k \in 1..group_ntrees[g] |-> before + k]

\* The number of nodes of the trees at the positions ks of the input
NodesOf(ks) == SumSeq([k \in DOMAIN ks |-> TreeSize(trees[ks[k]])])

\* C13: the grouping is an order-preserving partition: every tree is written
\* in exactly one group, groups are consecutive runs of the input order, no
\* empty group is written, a group is flushed as soon as its node count
\* exceeds the threshold (the count of a non-final group minus the size of
\* its last tree is at most the threshold), a non-empty trailing group is
\* always flushed, and group_ntrees / group_nnodes sum to the number of
\* trees and to the sum of their sizes.
C13_GroupingPartition ==
    /\ expPc = "save_data_files" =>
          \* the group being gathered has not passed the threshold
          /\ cg.cg_nnodes <= max_file_size
          /\ cg.cg_ntrees = Len(cg.current_group)
          /\ SumSeq(group_ntrees) + cg.cg_ntrees = isaved
    /\ DataFilesWritten =>
          /\ Len(written) = Len(group_ntrees)
          /\ Len(group_nnodes) = Len(group_ntrees)
          /\ SumSeq(group_ntrees) = Len(trees)
          /\ SumSeq(group_nnodes) = NodesOf([k \in 1..Len(trees) |-> k])
          /\ \A g \in DOMAIN group_ntrees :
                LET ks == TreesOfGroup(g)
                IN  /\ group_ntrees[g] >= 1
                    /\ group_nnodes[g] = NodesOf(ks)
                    /\ written[g].tree_size = [k \in DOMAIN ks |-> TreeSize(trees[ks[k]])]
                    /\ written[g].uid = Flatten([k \in DOMAIN ks |-> trees[ks[k]].uid])
                    /\ g < Len(group_ntrees) => group_nnodes[g] > max_file_size
                    /\ group_nnodes[g] > max_file_size =>
                          group_nnodes[g] - TreeSize(trees[ks[Len(ks)]]) <= max_file_size

\* C13 witness: a full group of two trees was flushed, and a trailing group
\* below the threshold after it.
C13_Witness ==
    /\ expPc = "done"
    /\ Len(group_ntrees) >= 2
    /\ group_ntrees[1] >= 2
    /\ group_nnodes[Len(group_nnodes)] <= max_file_size

\* The slice [start_k, end_k) of an array of a data file
SliceOfTree(file, array, k) ==
    SubSeq(array, file.tree_start_index[k] + 1, file.tree_end_index[k])

\* The local index of data file g: tree_size[k] is the node count of the
\* k-th tree of the group, tree_end_index is the cumulative sum of tree_size
\* and tree_start_index = tree_end_index - tree_size; the ranges are
\* contiguous and disjoint, start at 0 and end at the node count of the group
LocalIndexOf(g) ==
    LET file == written[g]
        ks == TreesOfGroup(g)
        n == Len(ks)
    IN  /\ Len(file.tree_size) = n
        /\ Len(file.tree_start_index) = n
        /\ Len(file.tree_end_index) = n
        /\ \A k \in 1..n :
              /\ file.tree_size[k] = TreeSize(trees[ks[k]])
              /\ file.tree_end_index[k] = SumSeq(SubSeq(file.tree_size, 1, k))
              /\ file.tree_start_index[k] = file.tree_end_index[k] - file.tree_size[k]
              /\ file.tree_start_index[k] < file.tree_end_index[k]
              /\ k > 1 => file.tree_start_index[k] = file.tree_end_index[k - 1]
        /\ file.tree_start_index[1] = 0
        /\ file.tree_end_index[n] = group_nnodes[g]
        /\ \A f \in Fields : Len(file[f]) = group_nnodes[g]

\* C14 as stated: the local index of every data file is as above, and for
\* every field the slice [start_k, end_k) of the array of the data file holds
\* the values of tree k in tree order.
C14_Original ==
    \A g \in DOMAIN written :
        /\ LocalIndexOf(g)
        /\ \A f \in Fields :
              \A k \in 1..group_ntrees[g] :
                 SliceOfTree(written[g], written[g][f], k)
                    = TreeField(trees[TreesOfGroup(g)[k]], f)

\* C14 amended: the local index of every data file is as above, and for
\* every field the slice [start_k, end_k) holds the values of tree k in tree
\* order, except that the first entry of the desc_uid slice is -1 whatever
\* the descendant id of the saved node was.
C14_Amended ==
    \A g \in DOMAIN written :
        /\ LocalIndexOf(g)
        /\ \A f \in Fields :
              \A k \in 1..group_ntrees[g] :
                 LET values == TreeField(trees[TreesOfGroup(g)[k]], f)
                 IN  SliceOfTree(written[g], written[g][f], k)
                        = IF f = "desc_uid" THEN [values EXCEPT ![1] = -1] ELSE values

\* C14 witness: a data file holds two trees, the second of two records and
\* saved from a node that has a descendant.
C14_Witness ==
    /\ DataFilesWritten
    /\ \E g \in DOMAIN written :
          /\ group_ntrees[g] >= 2
          /\ written[g].tree_size[2] = 2
          /\ ~trees[TreesOfGroup(g)[2]].is_root

\* ------------------------------------------------------------------------
\* Flat single-file planter (ConsistentTreesArbor._plant_trees)
\* ------------------------------------------------------------------------

\* File text is a sequence of one-character strings.
Newline == "\n"
Digits == {"0", "1", "2", "3", "4", "5", "6", "7", "8", "9"}
DigitValue(c) ==
    CASE c = "0" -> 0 [] c = "1" -> 1 [] c = "2" -> 2 [] c = "3" -> 3
      [] c = "4" -> 4 [] c = "5" -> 5 [] c = "6" -> 6 [] c = "7" -> 7
      [] c = "8" -> 8 [] c = "9" -> 9
DigitChar(n) ==
    CASE n = 0 -> "0" [] n = 1 -> "1" [] n = 2 -> "2" [] n = 3 -> "3"
      [] n = 4 -> "4" [] n = 5 -> "5" [] n = 6 -> "6" [] n = 7 -> "7"
      [] n = 8 -> "8" [] n = 9 -> "9"

\* The decimal text of a natural number
RECURSIVE DecimalText(_)
DecimalText(n) ==
    IF n < 10 THEN <<DigitChar(n)>>
    ELSE DecimalText(n \div 10) \o <<DigitChar(n % 10)>>

\* The marker line that opens a tree: "#tree <root id>\n"
MarkerLine(uidText) == <<"#", "t", "r", "e", "e", " ">> \o uidText \o <<Newline>>

\* The records of a tree: `lines` lines "x\n"
RECURSIVE BodyText(_)
BodyText(lines) == IF lines = 0 THEN << >> ELSE <<"x", Newline>> \o BodyText(lines - 1)

\* The comment header of a catalog and the line with the number of trees
\* that follows it; _hoffset is the position after that line.
HeaderText(ntrees) == <<"#", "c", Newline>> \o DecimalText(ntrees) \o <<Newline>>

RECURSIVE TreesText(_)
TreesText(ts) ==
    IF ts = << >> THEN << >>
    ELSE MarkerLine(Head(ts).uidText) \o BodyText(Head(ts).lines) \o TreesText(Tail(ts))

\* A catalog with the trees ts, each [uidText, lines]
Catalog(ts) ==
    [trees |-> ts,
     text |-> HeaderText(Len(ts)) \o TreesText(ts),
     hoffset |-> Len(HeaderText(Len(ts))),
     ntrees |-> Len(ts)]

\* Root ids as they stand in the file, of one and of two digits; "x" is a
\* marker whose root id is no integer.
UidTexts == {<<"5">>, <<"7">>, <<"1", "2">>, <<"3", "4">>, <<"x">>}

InitFlat ==
    /\ \E n \in 0..MaxFlatTrees :
          \E ts \in [1..n -> [uidText : UidTexts, lines : 1..MaxBodyLines]] :
             /\ \A i, j \in 1..n : i # j => ts[i].uidText # ts[j].uidText
             /\ catalog = Catalog(ts)
    /\ block_size \in 1..MaxBlockSize
    /\ flatPc = "start"
    /\ fh = [open |-> FALSE, pos |-> 0]
    /\ file_size = 0
    /\ nblocks = 0
    /\ ib = 0
    /\ offset = 0
    /\ itree = 0
    /\ flat_trees = << >>

\* str.find(c, start): the first 0-based position >= start holding c, or -1
Find(str, c, start) ==
    IF \E i \in start..(Len(str) - 1) : str[i + 1] = c
    THEN CHOOSE i \in start..(Len(str) - 1) :
            /\ str[i + 1] = c
            /\ \A j \in start..(i - 1) : str[j + 1] # c
    ELSE -1

\* str.count(c)
Count(str, c) == Cardinality({i \in DOMAIN str : str[i] = c})

\* fh.read(n) at 0-based position pos
ReadAt(text, pos, n) == SubSeq(text, pos + 1, pos + n)

\* fh.readline() at 0-based position pos: up to and with the next newline,
\* or up to the end of the file
ReadLineAt(text, pos) ==
    LET nl == Find(text, Newline, pos)
    IN  IF nl < 0 THEN SubSeq(text, pos + 1, Len(text))
        ELSE SubSeq(text, pos + 1, nl + 1)

\* int(str): white space around the number is dropped
RECURSIVE StripLeft(_)
StripLeft(str) ==
    IF str # << >> /\ Head(str) \in {" ", Newline} THEN StripLeft(Tail(str)) ELSE str

RECURSIVE StripRight(_)
StripRight(str) ==
    IF str # << >> /\ str[Len(str)] \in {" ", Newline}
    THEN StripRight(SubSeq(str, 1, Len(str) - 1)) ELSE str

Strip(str) == StripRight(StripLeft(str))

IsIntText(str) == Strip(str) # << >> /\ \A i \in DOMAIN Strip(str) : Strip(str)[i] \in Digits

RECURSIVE DecimalValue(_)
DecimalValue(ds) ==
    IF ds = << >> THEN 0
    ELSE 10 * DecimalValue(SubSeq(ds, 1, Len(ds) - 1)) + DigitValue(ds[Len(ds)])

ParseInt(str) == DecimalValue(Strip(str))

\* ceil(a / b) for b > 0
CeilDiv(a, b) == IF a <= 0 THEN 0 ELSE (a + b - 1) \div b

Min(a, b) == IF a <= b THEN a ELSE b

\* lkey = len("tree ")+1
lkey == 6

\* The end offset of a node that has none yet
Unset == -1

\* inl after the read was extended by readline (line 106)
ExtendedNewline(buff) == Len(buff)

\* One pass of the loop over the markers of a block, lines 101-115.
\* st = [buff, pos, lihash, itree, trees, err]
ScanMarker(st, text, ntrees, blockOffset) ==
    LET ihash == Find(st.buff, "#", st.lihash + 1)
        found == Find(st.buff, Newline, ihash + 1)
        line == IF found < 0 THEN ReadLineAt(text, st.pos) ELSE << >>
        buff == st.buff \o line
        inl == IF found < 0 THEN ExtendedNewline(buff) ELSE found
        uidText == SubSeq(buff, ihash + lkey + 1, inl)
        my_node == [uid |-> ParseInt(uidText),
                    si |-> blockOffset + inl + 1,
                    fi |-> 0,
                    ei |-> Unset]
        planted == [st.trees EXCEPT ![st.itree + 1] = my_node]
    IN  IF ~IsIntText(uidText)
        THEN [st EXCEPT !.buff = buff, !.pos = st.pos + Len(line),
                        !.err = "ValueError"]
        ELSE IF st.itree >= ntrees
        THEN [st EXCEPT !.buff = buff, !.pos = st.pos + Len(line),
                        !.err = "IndexError"]
        ELSE [buff |-> buff,
              pos |-> st.pos + Len(line),
              lihash |-> ihash,
              itree |-> st.itree + 1,
              trees |-> IF st.itree > 0
                        THEN [planted EXCEPT ![st.itree].ei = blockOffset + ihash - 1]
                        ELSE planted,
              err |-> ""]

RECURSIVE ScanMarkers(_, _, _, _, _)
ScanMarkers(st, remaining, text, ntrees, blockOffset) ==
    IF remaining = 0 \/ st.err # "" THEN st
    ELSE ScanMarkers(ScanMarker(st, text, ntrees, blockOffset),
                     remaining - 1, text, ntrees, blockOffset)

\* Lines 77-79: no trees, nothing to plant
FlatPlantNothing ==
    /\ flatPc = "start"
    /\ catalog.ntrees = 0
    /\ flat_trees' = << >>
    /\ flatPc' = "done"
    /\ UNCHANGED <<catalog, block_size, fh, file_size, nblocks, ib, offset, itree>>
    /\ UNCHANGED notFlat

\* Lines 77-95: open the file, measure it, seek to the end of the header
FlatPlantOpen ==
    /\ flatPc = "start"
    /\ catalog.ntrees > 0
    /\ flat_trees' = [i \in 1..catalog.ntrees |-> None]
    /\ fh' = [open |-> TRUE, pos |-> catalog.hoffset]
    /\ file_size' = Len(catalog.text)
    /\ offset' = catalog.hoffset
    /\ itree' = 0
    /\ ib' = 0
    /\ nblocks' = CeilDiv(Len(catalog.text) - catalog.hoffset, block_size)
    /\ flatPc' = "blocks"
    /\ UNCHANGED <<catalog, block_size>>
    /\ UNCHANGED notFlat

\* Lines 96-117: one block of the scan.  An exception raised by int() or by
\* the store into self._trees leaves _plant_trees at once.
FlatPlantBlock ==
    /\ flatPc = "blocks"
    /\ ib < nblocks
    /\ Min(block_size, file_size - offset) > 0
    /\ LET my_block == Min(block_size, file_size - offset)
           buff == ReadAt(catalog.text, fh.pos, my_block)
           st == ScanMarkers([buff |-> buff, pos |-> fh.pos + my_block, lihash |-> -1,
                              itree |-> itree, trees |-> flat_trees, err |-> ""],
                             Count(buff, "#"), catalog.text, catalog.ntrees, offset)
       IN  /\ fh' = [fh EXCEPT !.pos = st.pos]
           /\ itree' = st.itree
           /\ flat_trees' = st.trees
           /\ IF st.err = ""
              THEN /\ offset' = st.pos
                   /\ ib' = ib + 1
                   /\ flatPc' = "blocks"
              ELSE /\ flatPc' = st.err
                   /\ UNCHANGED <<offset, ib>>
    /\ UNCHANGED <<catalog, block_size, file_size, nblocks>>
    /\ UNCHANGED notFlat

\* Lines 118-120: the scan is over; the last tree ends at the final offset
FlatPlantFinish ==
    /\ flatPc = "blocks"
    /\ (ib >= nblocks \/ Min(block_size, file_size - offset) <= 0)
    /\ IF flat_trees[Len(flat_trees)] = None
       THEN /\ flatPc' = "AttributeError"
            /\ UNCHANGED <<flat_trees, fh>>
       ELSE /\ flat_trees' = [flat_trees EXCEPT ![Len(flat_trees)].ei = offset]
            /\ fh' = [fh EXCEPT !.open = FALSE]
            /\ flatPc' = "done"
    /\ UNCHANGED <<catalog, block_size, file_size, nblocks, ib, offset, itree>>
    /\ UNCHANGED notFlat

NextFlat ==
    \/ FlatPlantNothing
    \/ FlatPlantOpen
    \/ FlatPlantBlock
    \/ FlatPlantFinish

\* ------------------------------------------------------------------------
\* Flat single-file planter: claims
\* ------------------------------------------------------------------------

\* The 0-based position of the "#" of the marker of the i-th tree of the
\* catalog (i 1-based), and the width of that marker line, newline included.
MarkerPos(i) == catalog.hoffset + Len(TreesText(SubSeq(catalog.trees, 1, i - 1)))

MarkerWidth(i) == Len(MarkerLine(catalog.trees[i].uidText))

FlatPlanted == flatPc = "done" /\ catalog.ntrees > 0

FlatEndsBeforeMarker ==
    FlatPlanted =>
        /\ \A i \in 1..(catalog.ntrees - 1) : flat_trees[i].ei = MarkerPos(i + 1) - 1
        /\ flat_trees[catalog.ntrees].ei = Len(catalog.text)
        /\ \A i \in 1..catalog.ntrees :
              /\ flat_trees[i].fi = 0
              /\ flat_trees[i].uid = ParseInt(catalog.trees[i].uidText)

\* _plant_trees has returned or raised
FlatExited == flatPc \in {"done", "ValueError", "IndexError", "AttributeError"}

\* C11: whenever a planter opens a Data File, the file is closed by the time
\* the operation exits, also when it exits with an error raised while
\* reading or parsing (a marker whose root id is no integer); no execution
\* ends with a Data File left open.
C11_FilesReleased == FlatExited => ~fh.open

\* C15: the planted (root id, start offset, end offset) of every tree is the
\* same whatever the block size is: the root id is the one of the marker,
\* the start offset is the byte immediately after the newline of the marker
\* line, also when that newline lies beyond the block and the read is
\* extended, and the end offset is the one a scan in a single block gives.
C15_BlockIndependence ==
    FlatPlanted =>
        \A i \in 1..catalog.ntrees :
            /\ flat_trees[i].uid = ParseInt(catalog.trees[i].uidText)
            /\ flat_trees[i].si = MarkerPos(i) + MarkerWidth(i)
            /\ flat_trees[i].ei = IF i < catalog.ntrees THEN MarkerPos(i + 1) - 1
                                  ELSE Len(catalog.text)

InitManIdle ==
    /\ manifest = << >> /\ manPc = "idle" /\ ldata = << >> /\ fids = << >>
    /\ same_file = << >> /\ man_data_files = << >> /\ man_trees = << >>
    /\ iplant = 0 /\ probes = << >>

InitFlatIdle ==
    /\ catalog = << >> /\ block_size = 0 /\ flatPc = "idle" /\ fh = << >>
    /\ file_size = 0 /\ nblocks = 0 /\ ib = 0 /\ offset = 0 /\ itree = 0
    /\ flat_trees = << >>

\* ------------------------------------------------------------------------
\* Manifest-driven planter (ConsistentTreesGroupArbor)
\* ------------------------------------------------------------------------

\* Character codes, for the order of file names
CharOrd(c) ==
    CASE c = "." -> 46 [] c \in Digits -> 48 + DigitValue(c) [] c = "_" -> 95
      [] c = "t" -> 116 [] OTHER -> 120

\* a < b for strings, as Python and numpy order them
RECURSIVE StrLess(_, _)
StrLess(a, b) ==
    IF b = << >> THEN FALSE
    ELSE IF a = << >> THEN TRUE
    ELSE IF Head(a) # Head(b) THEN CharOrd(Head(a)) < CharOrd(Head(b))
    ELSE StrLess(Tail(a), Tail(b))

\* The name of the data file numbered n: "t_<n>."
FileNameText(n) == <<"t", "_">> \o DecimalText(n) \o <<".">>

\* A data file of the manifest: its file id, its name, its trees; its text
\* follows the flat grammar.
ManifestFile(fid, n, ts) ==
    [fid |-> fid, name |-> FileNameText(n), trees |-> ts,
     text |-> HeaderText(Len(ts)) \o TreesText(ts)]

\* The start offset of the i-th tree of a data file: the position after its
\* marker line
TreeStartIn(file, i) ==
    Len(HeaderText(Len(file.trees))) + Len(TreesText(SubSeq(file.trees, 1, i - 1)))
    + Len(MarkerLine(file.trees[i].uidText))

\* Root ids and file numbers of the manifests drawn: ids of one and of two
\* digits; file names whose order as strings differs from their numbers'.
ManifestUids == {<<"5">>, <<"7">>, <<"1", "2">>}
ManifestNames == {2, 10}

Injective(f) == \A x, y \in DOMAIN f : x # y => f[x] # f[y]

\* A manifest: n trees with root ids us, the i-th tree stored in the data
\* file of id own[i]; file id f is named after the number nm[f]; the lines of
\* locations.dat stand in the order perm.
ManifestOf(us, own, nm, perm) ==
    LET files == [f \in DOMAIN nm |->
                    ManifestFile(f, nm[f],
                                 MaskSelect([i \in DOMAIN us |-> [uidText |-> us[i], lines |-> 1]],
                                            own, f))]
        \* the position of tree i among the trees of its file
        local(i) == Cardinality({j \in 1..i : own[j] = own[i]})
        line(i) == [uidText |-> us[i], fid |-> own[i],
                    offset |-> TreeStartIn(files[own[i]], local(i)),
                    fname |-> files[own[i]].name]
    IN  [files |-> files, lines |-> [k \in DOMAIN perm |-> line(perm[k])]]

InitManifest ==
    /\ \E n \in 0..MaxManifestTrees :
          \E F \in SUBSET (0..MaxFid) :
             \E us \in [1..n -> ManifestUids], own \in [1..n -> F],
                nm \in [F -> ManifestNames], perm \in Permutations1(n) :
                /\ Injective(us) /\ Injective(nm)
                /\ \A f \in F : \E i \in 1..n : own[i] = f
                /\ manifest = ManifestOf(us, own, nm, perm)
    /\ manPc = "start"
    /\ ldata = << >>
    /\ fids = << >>
    /\ same_file = << >>
    /\ man_data_files = << >>
    /\ man_trees = << >>
    /\ iplant = 0
    /\ probes = << >>

\* list.sort(key=...) and ndarray.sort(): the sorted order, entries that
\* compare equal keeping the order they came in (a stable sort);
\* less[i][j] tells whether the i-th entry sorts before the j-th
StableSort(seq, less) ==
    LET p == CHOOSE q \in Permutations1(Len(seq)) :
                \A i, j \in 1..Len(seq) :
                    i < j => /\ ~less[q[j]][q[i]]
                             /\ (~less[q[i]][q[j]] => q[i] < q[j])
    IN  [i \in 1..Len(seq) |-> seq[p[i]]]

\* the order of integers
IntLess(seq) == [i \in DOMAIN seq |-> [j \in DOMAIN seq |-> seq[i] < seq[j]]]

\* operator.itemgetter(1, 2): by file id, then by offset
ByFileAndOffset(seq) ==
    [i \in DOMAIN seq |-> [j \in DOMAIN seq |->
        \/ seq[i].fid < seq[j].fid
        \/ (seq[i].fid = seq[j].fid /\ seq[i].offset < seq[j].offset)]]

\* np.unique of strings, then sort: the distinct names in string order
RECURSIVE SortedNames(_)
SortedNames(S) ==
    IF S = {} THEN << >>
    ELSE LET m == CHOOSE x \in S : \A y \in S \ {x} : StrLess(x, y)
         IN  <<m>> \o SortedNames(S \ {m})

\* lines 172-175: one datum per line of the manifest
Datum(line) ==
    [uid |-> ParseInt(line.uidText), fid |-> line.fid, offset |-> line.offset,
     fname |-> line.fname, uidlen |-> Len(line.uidText)]

\* lkey = len("tree ")+3, the length of the separation line between trees
group_lkey == 8

\* ConsistentTreesGroupArbor._parse_parameter_file, lines 158-163:
\* a manifest with no tree line is empty
CTG_parse_parameter_file ==
    /\ manPc = "start"
    /\ manPc' = IF manifest.lines = << >> THEN "ArborDataFileEmpty" ELSE "plant"
    /\ UNCHANGED <<manifest, ldata, fids, same_file, man_data_files, man_trees,
                   iplant, probes>>
    /\ UNCHANGED notMan

\* _plant_trees, lines 170-205: read the manifest, build the list of data
\* files, sort the entries
CTG_plant_read ==
    /\ manPc = "plant"
    /\ LET read == [k \in DOMAIN manifest.lines |-> Datum(manifest.lines[k])]
           dfns == SortedNames({read[k].fname : k \in DOMAIN read})
           rfids == [k \in DOMAIN read |-> read[k].fid]
           sfids == StableSort(rfids, IntLess(rfids))
           ufids == Unique(sfids)
       IN  /\ fids' = sfids
           /\ IF Len(dfns) < Len(ufids)
              THEN /\ manPc' = "IndexError"
                   /\ UNCHANGED <<ldata, same_file, man_data_files, man_trees>>
              ELSE /\ man_data_files' =
                         [i \in 1..(ufids[Len(ufids)] + 1) |->
                            IF \E k \in DOMAIN ufids : ufids[k] = i - 1
                            THEN dfns[CHOOSE k \in DOMAIN ufids : ufids[k] = i - 1]
                            ELSE None]
                   /\ ldata' = StableSort(read, ByFileAndOffset(read))
                   /\ same_file' = [i \in DOMAIN sfids |->
                                      i < Len(sfids) /\ sfids[i + 1] = sfids[i]]
                   /\ man_trees' = [i \in DOMAIN read |-> None]
                   /\ manPc' = "loop"
    /\ iplant' = 0
    /\ UNCHANGED <<manifest, probes>>
    /\ UNCHANGED notMan

\* the end offset taken from the next tree, line 213
EndFromNext(tdata, next) == next.offset - group_lkey - tdata.uidlen

\* _plant_trees, lines 207-216: one pass of the planting loop
CTG_plant_node ==
    /\ manPc = "loop"
    /\ iplant < Len(ldata)
    /\ LET i == iplant + 1
           tdata == ldata[i]
           my_node == [uid |-> tdata.uid, si |-> tdata.offset, fi |-> tdata.fid,
                       ei |-> IF same_file[i] THEN EndFromNext(tdata, ldata[i + 1])
                              ELSE Unset]
       IN  man_trees' = [man_trees EXCEPT ![i] = my_node]
    /\ iplant' = iplant + 1
    /\ IF iplant + 1 = Len(ldata)
       THEN /\ probes' = SortedSeqOfSet({i \in DOMAIN same_file : ~same_file[i]})
            /\ manPc' = "probe"
       ELSE UNCHANGED <<probes, manPc>>
    /\ UNCHANGED <<manifest, ldata, fids, same_file, man_data_files>>
    /\ UNCHANGED notMan

\* The size of the data file of a given name: what fh.seek(0, 2); fh.tell()
\* returns on it
FileSizeOf(name) ==
    Len((CHOOSE f \in Range(manifest.files) : f.name = name).text)

\* the data file probed for the end of the last tree of a file, line 220
ProbedFile(i) == man_data_files[fids[i] + 1]

\* _plant_trees, lines 218-224: the end of the last tree of a file is the
\* size of the file
CTG_probe ==
    /\ manPc = "probe"
    /\ probes # << >>
    /\ LET i == Head(probes)
           data_file == ProbedFile(i)
       IN  IF data_file = None
           THEN /\ manPc' = "AttributeError"
                /\ UNCHANGED <<man_trees, probes>>
           ELSE /\ man_trees' = [man_trees EXCEPT ![i].ei = FileSizeOf(data_file)]
                /\ probes' = Tail(probes)
                /\ manPc' = IF Tail(probes) = << >> THEN "done" ELSE "probe"
    /\ UNCHANGED <<manifest, ldata, fids, same_file, man_data_files, iplant>>
    /\ UNCHANGED notMan

NextManifest ==
    \/ CTG_parse_parameter_file
    \/ CTG_plant_read
    \/ CTG_plant_node
    \/ CTG_probe

\* ------------------------------------------------------------------------
\* Manifest-driven planter: claims
\* ------------------------------------------------------------------------

\* The line of the manifest that lists the tree of root id uid
LineOf(uid) ==
    manifest.lines[CHOOSE k \in DOMAIN manifest.lines :
                      ParseInt(manifest.lines[k].uidText) = uid]

ManifestPlanted == manPc = "done"

\* C9: after the entries are sorted by (file id, start offset), a tree that
\* is not the last entry of its file gets end offset = the next same-file
\* entry's start offset minus the separator width, so that the end lands
\* just before the next tree's marker line whatever the root ids of the two
\* trees are; the last entry of each file gets end offset = the size of that
\* file, obtained by an end-of-file probe; the result does not depend on the
\* order of the lines of the manifest.
C9_ManifestOffsets ==
    ManifestPlanted =>
        /\ Len(man_trees) = Len(manifest.lines)
        \* every line planted once, in the order of (file id, start offset)
        /\ \A k \in DOMAIN manifest.lines :
              \E i \in DOMAIN man_trees :
                 /\ man_trees[i].uid = ParseInt(manifest.lines[k].uidText)
                 /\ man_trees[i].fi = manifest.lines[k].fid
                 /\ man_trees[i].si = manifest.lines[k].offset
        /\ \A i \in 1..(Len(man_trees) - 1) :
              \/ man_trees[i].fi < man_trees[i + 1].fi
              \/ /\ man_trees[i].fi = man_trees[i + 1].fi
                 /\ man_trees[i].si < man_trees[i + 1].si
        /\ \A i \in DOMAIN man_trees :
              IF i < Len(man_trees) /\ man_trees[i + 1].fi = man_trees[i].fi
              THEN \* the position just before the "#" of the next marker line
                   man_trees[i].ei =
                      man_trees[i + 1].si
                      - Len(MarkerLine(LineOf(man_trees[i + 1].uid).uidText)) - 1
              ELSE man_trees[i].ei = FileSizeOf(LineOf(man_trees[i].uid).fname)

\* ------------------------------------------------------------------------
\* Structured planter (ConsistentTreesHDF5Arbor)
\* ------------------------------------------------------------------------

\* The rows a TreeInfo group may hold: TreeRootID, TreeHalosOffset, TreeNhalos
HdfRows == {[uid |-> 5, offset |-> 0, size |-> 1],
            [uid |-> 7, offset |-> 4, size |-> 3]}

\* What a count attribute may be off by
Defects == {-1, 0, 1}

\* The group File<i-1> of the container: its attribute Ntrees and its arrays
HdfGroup(i, rows, count) ==
    [name |-> <<"File", i - 1>>,
     count |-> count,
     uids |-> [j \in DOMAIN rows |-> rows[j].uid],
     offsets |-> [j \in DOMAIN rows |-> rows[j].offset],
     sizes |-> [j \in DOMAIN rows |-> rows[j].size]]

\* The containers drawn: up to MaxHdfFiles groups of up to MaxHdfTrees trees
\* each; the attributes Ntrees and TotNtrees agree with the arrays, or one
\* of them is off by one.
InitHdf ==
    /\ \E F \in 0..MaxHdfFiles :
          \E rows \in [1..F -> SeqsUpTo(HdfRows, MaxHdfTrees)],
             d \in [1..F -> Defects], dt \in Defects :
             /\ Cardinality({i \in 1..F : d[i] # 0}) + (IF dt # 0 THEN 1 ELSE 0) <= 1
             /\ \A i \in 1..F : Len(rows[i]) + d[i] >= 0
             /\ SumSeq([i \in 1..F |-> Len(rows[i])]) + dt >= 0
             /\ container =
                   [files |-> [i \in 1..F |-> HdfGroup(i, rows[i], Len(rows[i]) + d[i])],
                    total |-> SumSeq([i \in 1..F |-> Len(rows[i])]) + dt]
    /\ hdfPc = "start"
    /\ hdf_ntrees = 0
    /\ file_count = << >>
    /\ hdf_data_files = << >>
    /\ file_offsets = << >>
    /\ hdf_trees = << >>
    /\ idf = 0
    /\ ih = 0
    /\ uids = << >>
    /\ offsets = << >>
    /\ tree_sizes = << >>
    /\ stores = << >>

\* _parse_parameter_file, lines 90-97: a container without the group File0
\* is empty; TotNtrees is the number of trees
HDF_parse_parameter_file ==
    /\ hdfPc = "start"
    /\ IF container.files = << >>
       THEN /\ hdfPc' = "ArborDataFileEmpty"
            /\ UNCHANGED hdf_ntrees
       ELSE /\ hdf_ntrees' = container.total
            /\ hdfPc' = "files"
    /\ UNCHANGED <<container, file_count, hdf_data_files, file_offsets, hdf_trees,
                   idf, ih, uids, offsets, tree_sizes, stores>>
    /\ UNCHANGED notHdf

\* _get_data_files, lines 80-87: one data file per group, and its Ntrees
HDF_get_data_files ==
    /\ hdfPc = "files"
    /\ hdf_data_files' = [i \in DOMAIN container.files |-> container.files[i].name]
    /\ file_count' = [i \in DOMAIN container.files |-> container.files[i].count]
    /\ hdfPc' = "plant"
    /\ UNCHANGED <<container, hdf_ntrees, file_offsets, hdf_trees, idf, ih, uids,
                   offsets, tree_sizes, stores>>
    /\ UNCHANGED notHdf

\* file_offsets = self._file_count.cumsum() - self._file_count, line 139
FileOffsetsInclusive(count) == Cumsum(count)

FileOffsets(count) == Minus(Cumsum(count), count)

\* _plant_trees, lines 129-140: the empty array of trees and the offsets of
\* the files in it
HDF_plant_start ==
    /\ hdfPc = "plant"
    /\ hdf_trees' = [p \in 1..hdf_ntrees |-> None]
    /\ IF hdf_ntrees = 0
       THEN /\ hdfPc' = "done"
            /\ UNCHANGED file_offsets
       ELSE /\ file_offsets' = FileOffsets(file_count)
            /\ hdfPc' = "file"
    /\ idf' = 0
    /\ UNCHANGED <<container, hdf_ntrees, file_count, hdf_data_files, ih, uids,
                   offsets, tree_sizes, stores>>
    /\ UNCHANGED notHdf

\* _plant_trees, lines 141-148: open the next data file, read its arrays,
\* close it
HDF_plant_file ==
    /\ hdfPc = "file"
    /\ idf < Len(hdf_data_files)
    /\ LET group == container.files[idf + 1]
       IN  /\ uids' = group.uids
           /\ offsets' = group.offsets
           /\ tree_sizes' = group.sizes
           /\ IF group.uids = << >>
              THEN idf' = idf + 1 /\ hdfPc' = "file"
              ELSE idf' = idf /\ hdfPc' = "node"
    /\ ih' = 0
    /\ UNCHANGED <<container, hdf_ntrees, file_count, hdf_data_files, file_offsets,
                   hdf_trees, stores>>
    /\ UNCHANGED notHdf

\* the node of lines 150-153
HdfNode(f, uid, si, size) == [uid |-> uid, fi |-> f, si |-> si, ei |-> si + size]

\* _plant_trees, lines 149-155: one pass of the loop over the trees of the
\* current file; a store beyond the end of self._trees raises IndexError
HDF_plant_node ==
    /\ hdfPc = "node"
    /\ ih < Len(uids)
    /\ LET ifile == file_offsets[idf + 1]
           my_node == HdfNode(idf, uids[ih + 1], offsets[ih + 1], tree_sizes[ih + 1])
       IN  IF ih + ifile >= hdf_ntrees
           THEN /\ hdfPc' = "IndexError"
                /\ UNCHANGED <<hdf_trees, stores, ih, idf>>
           ELSE /\ hdf_trees' = [hdf_trees EXCEPT ![ih + ifile + 1] = my_node]
                /\ stores' = Append(stores, [pos |-> ih + ifile, node |-> my_node])
                /\ IF ih + 1 = Len(uids)
                   THEN ih' = ih + 1 /\ idf' = idf + 1 /\ hdfPc' = "file"
                   ELSE ih' = ih + 1 /\ idf' = idf /\ hdfPc' = "node"
    /\ UNCHANGED <<container, hdf_ntrees, file_count, hdf_data_files, file_offsets,
                   uids, offsets, tree_sizes>>
    /\ UNCHANGED notHdf

\* _plant_trees, line 156: every data file was taken
HDF_plant_finish ==
    /\ hdfPc = "file"
    /\ idf = Len(hdf_data_files)
    /\ hdfPc' = "done"
    /\ UNCHANGED <<container, hdf_ntrees, file_count, hdf_data_files, file_offsets,
                   hdf_trees, idf, ih, uids, offsets, tree_sizes, stores>>
    /\ UNCHANGED notHdf

NextHDF5 ==
    \/ HDF_parse_parameter_file
    \/ HDF_get_data_files
    \/ HDF_plant_start
    \/ HDF_plant_file
    \/ HDF_plant_node
    \/ HDF_plant_finish

\* ------------------------------------------------------------------------
\* Structured planter: claims
\* ------------------------------------------------------------------------

\* The trees of the container in the order the loops take them: (f, j) for
\* the tree at local position j of file f, both 0-based
RECURSIVE LocalTrees(_)
LocalTrees(F) ==
    IF F = 0 THEN << >>
    ELSE LocalTrees(F - 1) \o
         [j \in 1..Len(container.files[F].uids) |-> [f |-> F - 1, j |-> j - 1]]

\* The sum of the tree counts of the files before file f (0-based)
CountBefore(f) == SumSeq([i \in 1..f |-> container.files[i].count])

\* The per-file counts equal the per-file array lengths and sum to the total
HdfConsistent ==
    /\ \A i \in DOMAIN container.files :
          container.files[i].count = Len(container.files[i].uids)
    /\ SumSeq([i \in DOMAIN container.files |-> container.files[i].count])
          = container.total

\* C10: the tree at local position j of file f gets file id f, start offset
\* offsets[j], end offset start + sizes[j], root id uids[j], and is stored
\* at global position j + (the sum of the tree counts of the files before
\* f); when the per-file counts equal the per-file array lengths and sum to
\* the total tree count, every global position 0..N-1 is filled by exactly
\* one tree and none is left empty or overwritten.
C10_StructuredPlanter ==
    /\ hdfPc \in {"file", "node", "done", "IndexError"} =>
          LET order == LocalTrees(Len(container.files))
          IN  /\ Len(stores) <= Len(order)
              /\ \A k \in DOMAIN stores :
                    LET f == order[k].f
                        j == order[k].j
                        group == container.files[f + 1]
                    IN  /\ stores[k].pos = j + CountBefore(f)
                        /\ stores[k].node.fi = f
                        /\ stores[k].node.uid = group.uids[j + 1]
                        /\ stores[k].node.si = group.offsets[j + 1]
                        /\ stores[k].node.ei = group.offsets[j + 1] + group.sizes[j + 1]
                        /\ (hdfPc = "done" /\ HdfConsistent)
                              => hdf_trees[stores[k].pos + 1] = stores[k].node
    /\ (hdfPc \notin {"start", "idle"} /\ container.files # << >> /\ HdfConsistent) =>
          hdfPc \notin {"IndexError", "ArborDataFileEmpty"}
    /\ (hdfPc = "done" /\ HdfConsistent) =>
          /\ Len(hdf_trees) = container.total
          /\ Len(stores) = container.total
          /\ \A p \in 0..(container.total - 1) :
                /\ hdf_trees[p + 1] # None
                /\ Cardinality({k \in DOMAIN stores : stores[k].pos = p}) = 1

\* A consistent container of two files with trees in both was planted.
C10_Witness ==
    /\ hdfPc = "done"
    /\ HdfConsistent
    /\ Len(container.files) >= 2
    /\ Len(container.files[1].uids) >= 2
    /\ Len(container.files[2].uids) >= 1
    /\ hdf_trees[Len(hdf_trees)].fi = 1

InitHdfIdle ==
    /\ container = << >> /\ hdfPc = "idle" /\ hdf_ntrees = 0 /\ file_count = << >>
    /\ hdf_data_files = << >> /\ file_offsets = << >> /\ hdf_trees = << >>
    /\ idf = 0 /\ ih = 0 /\ uids = << >> /\ offsets = << >> /\ tree_sizes = << >>
    /\ stores = << >>

\* The data files are resolved: _plant_trees is past line 195
ManifestResolved == manPc \in {"loop", "probe", "done", "AttributeError"}

\* C16: for every tree planted from a manifest, the Data File at the tree's
\* file id is the file whose name the manifest lists on that tree's line,
\* for all manifests in which each file id is paired with one file name,
\* also with sparse file ids (an unlisted id maps to no Data File) and with
\* file names whose order as strings differs from the order of their ids.
C16_FileResolution ==
    ManifestResolved =>
        /\ \A k \in DOMAIN manifest.lines :
              /\ manifest.lines[k].fid + 1 \in DOMAIN man_data_files
              /\ man_data_files[manifest.lines[k].fid + 1] = manifest.lines[k].fname
        /\ \A i \in DOMAIN man_data_files :
              (\A k \in DOMAIN manifest.lines : manifest.lines[k].fid # i - 1)
                 => man_data_files[i] = None

\* ------------------------------------------------------------------------
\* Empty primary sources
\* ------------------------------------------------------------------------

\* C12: an empty primary source fails with ArborDataFileEmpty before any
\* Node is created: a manifest with no tree line after its header, a
\* structured container without a first file group, and a flat catalog with
\* zero trees each abort the load with that error, and no TreeNode has been
\* constructed at that point.
C12_EmptySourceFails ==
    /\ (manPc \notin {"idle", "start"} /\ manifest.lines = << >>) =>
          (manPc = "ArborDataFileEmpty" /\ man_trees = << >>)
    /\ (hdfPc \notin {"idle", "start"} /\ container.files = << >>) =>
          (hdfPc = "ArborDataFileEmpty" /\ hdf_trees = << >> /\ stores = << >>)
    /\ (flatPc \notin {"idle", "start"} /\ catalog.ntrees = 0) =>
          (flatPc = "ArborDataFileEmpty" /\ flat_trees = << >>)

InitSchedIdle ==
    /\ arbor = "none" /\ ei = << >> /\ node_info_ai = << >> /\ tree_fi = << >>
    /\ data_files = << >> /\ request = << >> /\ prep = << >> /\ schedPc = "idle"

InitExportIdle ==
    /\ trees = << >> /\ max_file_size = 0 /\ expPc = "idle" /\ isaved = 0
    /\ cg = << >> /\ group_nnodes = << >> /\ group_ntrees = << >>
    /\ root_field_data = << >> /\ written = << >> /\ header = << >>
    /\ loaded = << >>

\* ------------------------------------------------------------------------
\* Specifications
\* ------------------------------------------------------------------------
InitOfSched ==
    InitSched /\ InitExportIdle /\ InitFlatIdle /\ InitManIdle /\ InitHdfIdle

SpecSched == InitOfSched /\ [][NextSched]_vars

InitOfExport ==
    InitExport /\ InitSchedIdle /\ InitFlatIdle /\ InitManIdle /\ InitHdfIdle

SpecExport == InitOfExport /\ [][NextExport]_vars

InitOfFlat ==
    InitFlat /\ InitSchedIdle /\ InitExportIdle /\ InitManIdle /\ InitHdfIdle

SpecFlat == InitOfFlat /\ [][NextFlat]_vars

InitOfManifest ==
    InitManifest /\ InitSchedIdle /\ InitExportIdle /\ InitFlatIdle /\ InitHdfIdle

SpecManifest == InitOfManifest /\ [][NextManifest]_vars

InitOfHDF5 ==
    InitHdf /\ InitSchedIdle /\ InitExportIdle /\ InitFlatIdle /\ InitManIdle

SpecHDF5 == InitOfHDF5 /\ [][NextHDF5]_vars

====
